---- MODULE Spec2Model ----
(***************************************************************************)
(* Model of src/models.py: the model classes it declares (fields, types,   *)
(* defaults, configuration) and the validation / serialization calls it    *)
(* makes on them, with the behaviour the file documents for each call in   *)
(* its comments, assertions and expected outputs.                          *)
(*                                                                         *)
(* Python values are tagged records; each tag has its own payload field so *)
(* that values of different kinds are comparable:                          *)
(*   int      [t, i]        float  [t, h]   (h = the value in hundredths)  *)
(*   str      [t, s]        bytes  [t, b]   (a sequence of characters)     *)
(*   none     [t]                                                          *)
(*   list     [t, items]    tuple  [t, elts]                               *)
(*   dict     [t, d]        (d = a function from string keys to values)    *)
(*   obj      [t, ocls, attrs]   an arbitrary class instance               *)
(*   inst     [t, model, fields, extra]   a model instance                 *)
(***************************************************************************)
EXTENDS Integers, Sequences, FiniteSets, TLC

VARIABLES cls, m, pristine, op, arg, data, ret, err

vars == <<cls, m, pristine, op, arg, data, ret, err>>

(* ------------------------------ bounds --------------------------------- *)

\* longest list / tuple drawn as an input
MaxListLen == 3

(* ------------------------------ values --------------------------------- *)

None == [t |-> "none"]

IntV(n) == [t |-> "int", i |-> n]

FloatV(hundredths) == [t |-> "float", h |-> hundredths]

StrV(chars) == [t |-> "str", s |-> chars]

BytesV(chars) == [t |-> "bytes", b |-> chars]

ListV(xs) == [t |-> "list", items |-> xs]

TupleV(xs) == [t |-> "tuple", elts |-> xs]

DictV(f) == [t |-> "dict", d |-> f]

ObjV(c, f) == [t |-> "obj", ocls |-> c, attrs |-> f]

InstV(M, f, x) == [t |-> "inst", model |-> M, fields |-> f, extra |-> x]

EmptyMap == [k \in {} |-> None]

\* d with key k bound to v
Put(d, k, v) == [x \in DOMAIN d \cup {k} |-> IF x = k THEN v ELSE d[x]]

(* --------------------------- string parsing ---------------------------- *)

Digits == <<"0", "1", "2", "3", "4", "5", "6", "7", "8", "9">>

IsDigit(c) == \E n \in 1..10 : Digits[n] = c

DigitVal(c) == (CHOOSE n \in 1..10 : Digits[n] = c) - 1

AllDigits(cs) == Len(cs) > 0 /\ \A n \in 1..Len(cs) : IsDigit(cs[n])

RECURSIVE DigitsVal(_)
DigitsVal(cs) ==
    IF cs = <<>> THEN 0
    ELSE 10 * DigitsVal(SubSeq(cs, 1, Len(cs) - 1)) + DigitVal(cs[Len(cs)])

\* position of the first "." in cs, 0 when there is none
DotPos(cs) ==
    IF \E n \in 1..Len(cs) : cs[n] = "."
    THEN CHOOSE n \in 1..Len(cs) : cs[n] = "." /\ \A k \in 1..(n - 1) : cs[k] # "."
    ELSE 0

\* '123' -> 123, '-5' -> -5; anything else does not parse
IntParses(cs) ==
    \/ AllDigits(cs)
    \/ Len(cs) > 1 /\ cs[1] = "-" /\ AllDigits(Tail(cs))

IntOfStr(cs) == IF cs[1] = "-" THEN 0 - DigitsVal(Tail(cs)) ELSE DigitsVal(cs)

\* '2.72' -> 2.72, '3' -> 3.0; at most two decimals are representable
FloatParses(cs) ==
    LET p == DotPos(cs) IN
    IF p = 0 THEN AllDigits(cs)
    ELSE /\ AllDigits(SubSeq(cs, 1, p - 1))
         /\ AllDigits(SubSeq(cs, p + 1, Len(cs)))
         /\ Len(cs) - p <= 2

HundredthsOfStr(cs) ==
    LET p == DotPos(cs) IN
    IF p = 0 THEN 100 * DigitsVal(cs)
    ELSE LET frac == SubSeq(cs, p + 1, Len(cs)) IN
         100 * DigitsVal(SubSeq(cs, 1, p - 1))
           + (IF Len(frac) = 1 THEN 10 * DigitsVal(frac) ELSE DigitsVal(frac))

(* ------------------------------- types --------------------------------- *)

TInt == [k |-> "int"]

TFloat == [k |-> "float"]

TStr == [k |-> "str", bounded |-> FALSE, max |-> 0]

TStrMax(n) == [k |-> "str", bounded |-> TRUE, max |-> n]

TList(T) == [k |-> "list", elem |-> T]

TOptional(T) == [k |-> "optional", of |-> T]

TModel(M) == [k |-> "model", name |-> M]

\* a required field, and a field with a default
Req(n, T) == [name |-> n, type |-> T, hasDefault |-> FALSE, default |-> None]

Dflt(n, T, v) == [name |-> n, type |-> T, hasDefault |-> TRUE, default |-> v]

Config(x, fa, rv) == [extra |-> x, from_attributes |-> fa, revalidate_instances |-> rv]

DefaultConfig == Config("ignore", FALSE, "never")

TDatetime == [k |-> "datetime"]

DatetimeV(y, mo, d, hh, mi) ==
    [t |-> "datetime", year |-> y, month |-> mo, day |-> d, hour |-> hh, minute |-> mi]

\* 'YYYY-MM-DD' alone, or followed by a separator and 'HH:MM'
DateParses(cs) ==
    /\ Len(cs) >= 10
    /\ AllDigits(SubSeq(cs, 1, 4)) /\ cs[5] = "-"
    /\ AllDigits(SubSeq(cs, 6, 7)) /\ cs[8] = "-"
    /\ AllDigits(SubSeq(cs, 9, 10))
    /\ DigitsVal(SubSeq(cs, 6, 7)) \in 1..12
    /\ DigitsVal(SubSeq(cs, 9, 10)) \in 1..31

DatetimeParses(cs) ==
    /\ DateParses(cs)
    /\ \/ Len(cs) = 10
       \/ /\ Len(cs) = 16
          /\ cs[11] \in {"T", "t", "_", " "}
          /\ AllDigits(SubSeq(cs, 12, 13)) /\ cs[14] = ":"
          /\ AllDigits(SubSeq(cs, 15, 16))
          /\ DigitsVal(SubSeq(cs, 12, 13)) \in 0..23
          /\ DigitsVal(SubSeq(cs, 15, 16)) \in 0..59

DatetimeOfStr(cs) ==
    DatetimeV(DigitsVal(SubSeq(cs, 1, 4)), DigitsVal(SubSeq(cs, 6, 7)),
              DigitsVal(SubSeq(cs, 9, 10)),
              IF Len(cs) = 16 THEN DigitsVal(SubSeq(cs, 12, 13)) ELSE 0,
              IF Len(cs) = 16 THEN DigitsVal(SubSeq(cs, 15, 16)) ELSE 0)

(* --------------------------- string literals --------------------------- *)

s_Jane_Doe == <<"J", "a", "n", "e", " ", "D", "o", "e">>

s_John_Doe == <<"J", "o", "h", "n", " ", "D", "o", "e">>

s_James == <<"J", "a", "m", "e", "s">>

s_123 == <<"1", "2", "3">>

s_1 == <<"1">>

s_bad == <<"b", "a", "d">>

s_2_72 == <<"2", ".", "7", "2">>

s_not_a_float == <<"n", "o", "t", " ", "a", " ", "f", "l", "o", "a", "t">>

s_not_an_int == <<"n", "o", "t", " ", "a", "n", " ", "i", "n", "t">>

s_binary_data == <<"b", "i", "n", "a", "r", "y", " ", "d", "a", "t", "a">>

s_value == <<"v", "a", "l", "u", "e">>

s_a == <<"a">>

s_x == <<"x">>

s_y == <<"y">>

s_x1 == <<"x", "1">>

s_Anna == <<"A", "n", "n", "a">>

s_Bones == <<"B", "o", "n", "e", "s">>

s_dog == <<"d", "o", "g">>

s_foobar == <<"f", "o", "o", "b", "a", "r">>

s_example_com == <<"e", "x", "a", "m", "p", "l", "e", ".", "c", "o", "m">>

s_2024_04_01 == <<"2", "0", "2", "4", "-", "0", "4", "-", "0", "1">>

s_2024_04_01T12_00 == <<"2", "0", "2", "4", "-", "0", "4", "-", "0", "1", "T", "1", "2", ":", "0", "0">>

(* ------------------------------ models --------------------------------- *)

ModelNames ==
    {"User", "ModelConv", "ModelItems", "ModelIgnore", "ModelAllow", "ModelForbid",
     "Foo", "Bar", "Spam", "CompanyModel", "Pet", "Person", "ModelErr", "User2",
     "ModelNever", "ModelAlways", "DataModel", "ResponseInt", "ResponseStr",
     "ResponseDataModel"}

Fields(M) ==
    CASE M = "User" -> <<Req("id", TInt), Dflt("name", TStrMax(10), StrV(s_Jane_Doe))>>
      [] M = "ModelConv" -> <<Req("a", TInt), Req("b", TFloat), Req("c", TStr)>>
      [] M = "ModelItems" -> <<Req("items", TList(TInt))>>
      [] M = "ModelIgnore" -> <<Req("x", TInt)>>
      [] M = "ModelAllow" -> <<Req("x", TInt)>>
      [] M = "ModelForbid" -> <<Req("x", TInt)>>
      [] M = "Foo" -> <<Req("count", TInt), Dflt("size", TOptional(TFloat), None)>>
      [] M = "Bar" -> <<Dflt("apple", TStr, StrV(s_x)), Dflt("banana", TStr, StrV(s_y))>>
      [] M = "Spam" -> <<Req("foo", TModel("Foo")), Req("bars", TList(TModel("Bar")))>>
      [] M = "CompanyModel" ->
            <<Req("id", TInt), Req("public_key", TStrMax(20)),
              Req("domains", TList(TStrMax(255)))>>
      [] M = "Pet" -> <<Req("name", TStr), Req("species", TStr)>>
      [] M = "Person" ->
            <<Req("name", TStr), Dflt("age", TFloat, None), Req("pets", TList(TModel("Pet")))>>
      [] M = "ModelErr" -> <<Req("list_of_ints", TList(TInt)), Req("a_float", TFloat)>>
      [] M = "User2" ->
            <<Req("id", TInt), Dflt("name", TStr, StrV(s_John_Doe)),
              Dflt("signup_ts", TOptional(TDatetime), None)>>
      [] M = "ModelNever" -> <<Req("a", TInt)>>
      [] M = "ModelAlways" -> <<Req("a", TInt)>>
      [] M = "DataModel" -> <<Req("number", TInt)>>
      [] M = "ResponseInt" -> <<Req("data", TInt)>>
      [] M = "ResponseStr" -> <<Req("data", TStr)>>
      [] M = "ResponseDataModel" -> <<Req("data", TModel("DataModel"))>>

ModelConfig(M) ==
    CASE M = "ModelAllow" -> Config("allow", FALSE, "never")
      [] M = "ModelForbid" -> Config("forbid", FALSE, "never")
      [] M \in {"CompanyModel", "Pet", "Person"} -> Config("ignore", TRUE, "never")
      [] M = "ModelAlways" -> Config("ignore", FALSE, "always")
      [] OTHER -> DefaultConfig

FieldNames(M) == {Fields(M)[n].name : n \in 1..Len(Fields(M))}

FieldOf(M, f) == Fields(M)[CHOOSE n \in 1..Len(Fields(M)) : Fields(M)[n].name = f]

(* ----------------------------- validation ------------------------------ *)

\* location elements of an error entry: a field name or a list index
Fld(n) == [f |-> n]

Idx(n) == [ix |-> n]

Error(loc, type, input) == <<[loc |-> loc, type |-> type, input |-> input]>>

Ok(v) == [val |-> v, errs |-> <<>>]

Fail(errs) == [val |-> None, errs |-> errs]

RECURSIVE SeqOfSet(_)
SeqOfSet(S) ==
    IF S = {} THEN <<>>
    ELSE LET x == CHOOSE x \in S : TRUE IN <<x>> \o SeqOfSet(S \ {x})

ValidateInt(v, loc) ==
    CASE v.t = "int" -> Ok(v)
      [] v.t = "float" ->
            IF v.h % 100 = 0 THEN Ok(IntV(v.h \div 100))
            ELSE Fail(Error(loc, "int_from_float", v))
      [] v.t = "str" ->
            IF IntParses(v.s) THEN Ok(IntV(IntOfStr(v.s)))
            ELSE Fail(Error(loc, "int_parsing", v))
      [] OTHER -> Fail(Error(loc, "int_type", v))

ValidateFloat(v, loc) ==
    CASE v.t = "float" -> Ok(v)
      [] v.t = "int" -> Ok(FloatV(100 * v.i))
      [] v.t = "str" ->
            IF FloatParses(v.s) THEN Ok(FloatV(HundredthsOfStr(v.s)))
            ELSE Fail(Error(loc, "float_parsing", v))
      [] OTHER -> Fail(Error(loc, "float_type", v))

CheckLength(T, chars, v, loc) ==
    IF T.bounded /\ Len(chars) > T.max THEN Fail(Error(loc, "string_too_long", v))
    ELSE Ok(StrV(chars))

ValidateStr(T, v, loc) ==
    CASE v.t = "str" -> CheckLength(T, v.s, v, loc)
      [] v.t = "bytes" -> CheckLength(T, v.b, v, loc)
      [] OTHER -> Fail(Error(loc, "string_type", v))

ValidateDatetime(v, loc) ==
    CASE v.t = "datetime" -> Ok(v)
      [] v.t = "str" ->
            IF DatetimeParses(v.s) THEN Ok(DatetimeOfStr(v.s))
            ELSE Fail(Error(loc, "datetime_parsing", v))
      [] OTHER -> Fail(Error(loc, "datetime_type", v))

RECURSIVE Flatten(_)
\* the concatenation of a sequence of sequences
Flatten(ss) == IF Len(ss) = 0 THEN <<>> ELSE ss[1] \o Flatten(SubSeq(ss, 2, Len(ss)))

\* the first non-empty sequence of a sequence of sequences
FirstNonEmpty(ss) ==
    IF \A n \in 1..Len(ss) : ss[n] = <<>> THEN <<>>
    ELSE ss[CHOOSE n \in 1..Len(ss) : ss[n] # <<>> /\ \A k \in 1..(n - 1) : ss[k] = <<>>]

RECURSIVE Validate(_, _, _)
RECURSIVE ValidateItems(_, _, _)
RECURSIVE ValidateList(_, _, _)
RECURSIVE ValidateField(_, _, _, _)
RECURSIVE ValidateFields(_, _, _, _)
RECURSIVE ValidateModel(_, _, _)

\* the results R of the items of a list, gathered: the values in order, and
\* the errors of every item
GatherItems(R) ==
    [vals |-> SubSeq([n \in 1..Len(R) |-> R[n].val], 1, Len(R)),
     errs |-> Flatten([n \in 1..Len(R) |-> R[n].errs])]

\* the items of a list, each located by its 0-based index
ValidateItems(T, xs, loc) ==
    GatherItems([n \in 1..Len(xs) |-> Validate(T, xs[n], Append(loc, Idx(n - 1)))])

ListResult(r) == IF r.errs = <<>> THEN Ok(ListV(r.vals)) ELSE Fail(r.errs)

ValidateList(T, v, loc) ==
    IF v.t \in {"list", "tuple"}
    THEN ListResult(ValidateItems(T.elem, IF v.t = "list" THEN v.items ELSE v.elts, loc))
    ELSE Fail(Error(loc, "list_type", v))

\* one field of a model, read from the mapping src; whole is the input src
\* was taken from.  An absent field takes its default as declared.
ValidateField(fd, src, whole, loc) ==
    IF fd.name \in DOMAIN src
    THEN Validate(fd.type, src[fd.name], Append(loc, Fld(fd.name)))
    ELSE IF fd.hasDefault THEN Ok(fd.default)
    ELSE Fail(Error(Append(loc, Fld(fd.name)), "missing", whole))

\* GatherFields reporting the first field that fails alone
GatherFields_FirstErrorOnly(M, R) ==
    [vals |-> [f \in FieldNames(M) |->
                  R[CHOOSE n \in 1..Len(R) : Fields(M)[n].name = f].val],
     errs |-> FirstNonEmpty([n \in 1..Len(R) |-> R[n].errs])]

\* the results R of the fields of model M, gathered: the value of each
\* field, and the errors of every field in declaration order
GatherFields(M, R) ==
    [vals |-> [f \in FieldNames(M) |->
                  R[CHOOSE n \in 1..Len(R) : Fields(M)[n].name = f].val],
     errs |-> Flatten([n \in 1..Len(R) |-> R[n].errs])]

\* the fields of model M in declaration order: every one is validated
ValidateFields(M, src, whole, loc) ==
    GatherFields(M, [n \in 1..Len(Fields(M)) |-> ValidateField(Fields(M)[n], src, whole, loc)])

\* ValidationKind returning an instance of M as it is under every setting
ValidationKind_NeverRevalidates(M, v) ==
    CASE v.t = "inst" /\ v.model = M -> "as_is"
      [] v.t = "dict" -> "mapping"
      [] v.t \in {"obj", "inst"} /\ ModelConfig(M).from_attributes -> "attributes"
      [] OTHER -> "reject"

\* how model_validate treats the input v: an instance of M is returned as it
\* is or validated again, a mapping is read by key, another object by
\* attribute when from_attributes is set, anything else is rejected
ValidationKind(M, v) ==
    CASE v.t = "inst" /\ v.model = M ->
            IF ModelConfig(M).revalidate_instances = "never" THEN "as_is" ELSE "revalidate"
      [] v.t = "dict" -> "mapping"
      [] v.t \in {"obj", "inst"} /\ ModelConfig(M).from_attributes -> "attributes"
      [] OTHER -> "reject"

\* where the fields are read from
SourceOf(kind, v) ==
    CASE kind = "mapping" -> v.d
      [] kind = "attributes" /\ v.t = "obj" -> v.attrs
      [] OTHER -> v.fields

\* ExtraStored keeping the undeclared keys under every policy but 'forbid'
ExtraStored_UnlessForbidden(kind, M, v) ==
    CASE kind = "mapping" /\ ModelConfig(M).extra # "forbid" ->
            [k \in DOMAIN v.d \ FieldNames(M) |-> v.d[k]]
      [] kind = "revalidate" -> v.extra
      [] OTHER -> EmptyMap

\* the extra dictionary of the instance: the undeclared keys of a mapping
\* under extra='allow', nothing under the other policies
ExtraStored(kind, M, v) ==
    CASE kind = "mapping" /\ ModelConfig(M).extra = "allow" ->
            [k \in DOMAIN v.d \ FieldNames(M) |-> v.d[k]]
      [] kind = "revalidate" -> v.extra
      [] OTHER -> EmptyMap

ForbiddenErrors(keys, src, loc) ==
    Flatten([n \in 1..Len(keys) |->
                Error(Append(loc, Fld(keys[n])), "extra_forbidden", src[keys[n]])])

\* the errors the undeclared keys of a mapping raise under extra='forbid'
ExtraErrors(kind, M, v, loc) ==
    IF kind = "mapping" /\ ModelConfig(M).extra = "forbid"
    THEN ForbiddenErrors(SeqOfSet(DOMAIN v.d \ FieldNames(M)), v.d, loc)
    ELSE <<>>

\* the instance of M built from the field results r, or the errors
ModelResult(M, r, xerrs, extra) ==
    IF r.errs \o xerrs = <<>> THEN Ok(InstV(M, r.vals, extra)) ELSE Fail(r.errs \o xerrs)

ValidateAs(kind, M, v, loc) ==
    CASE kind = "as_is" -> Ok(v)
      [] kind = "reject" ->
            Fail(Error(loc, IF ModelConfig(M).from_attributes
                            THEN "model_attributes_type" ELSE "model_type", v))
      [] OTHER ->
            ModelResult(M, ValidateFields(M, SourceOf(kind, v), v, loc),
                        ExtraErrors(kind, M, v, loc), ExtraStored(kind, M, v))

ValidateModel(M, v, loc) == ValidateAs(ValidationKind(M, v), M, v, loc)

Validate(T, v, loc) ==
    CASE T.k = "int" -> ValidateInt(v, loc)
      [] T.k = "float" -> ValidateFloat(v, loc)
      [] T.k = "str" -> ValidateStr(T, v, loc)
      [] T.k = "datetime" -> ValidateDatetime(v, loc)
      [] T.k = "optional" -> IF v.t = "none" THEN Ok(None) ELSE Validate(T.of, v, loc)
      [] T.k = "list" -> ValidateList(T, v, loc)
      [] T.k = "model" -> ValidateModel(T.name, v, loc)

(* ---------------------------- serialization ---------------------------- *)

RECURSIVE Dump(_)

\* Dump leaving out the keys of the extra dictionary
Dump_FieldsOnly(v) ==
    CASE v.t = "inst" -> DictV([k \in DOMAIN v.fields |-> Dump(v.fields[k])])
      [] v.t = "list" -> ListV(SubSeq([n \in 1..Len(v.items) |-> Dump(v.items[n])], 1, Len(v.items)))
      [] OTHER -> v

\* Dump converting the instance alone, as dict(m) does, nested ones kept
Dump_Shallow(v) ==
    CASE v.t = "inst" ->
            DictV([k \in DOMAIN v.fields \cup DOMAIN v.extra |->
                      IF k \in DOMAIN v.fields THEN v.fields[k] ELSE v.extra[k]])
      [] OTHER -> v

\* model_dump(): instances become plain mappings, recursively, inside lists
\* too; the keys are the fields and the keys of the extra dictionary
Dump(v) ==
    CASE v.t = "inst" ->
            DictV([k \in DOMAIN v.fields \cup DOMAIN v.extra |->
                      Dump(IF k \in DOMAIN v.fields THEN v.fields[k] ELSE v.extra[k])])
      [] v.t = "list" -> ListV(SubSeq([n \in 1..Len(v.items) |-> Dump(v.items[n])], 1, Len(v.items)))
      [] OTHER -> v

(* -------------------------------- JSON --------------------------------- *)

\* JSON text is a sequence of tokens: punctuation, member names, string,
\* number and null literals, and bare words (which are not JSON)
Punct(c) == [t |-> "punct", c |-> c]

Name(n) == [t |-> "name", n |-> n]

Word(w) == [t |-> "word", w |-> w]

TextV(toks) == [t |-> "text", toks |-> toks]

IsPunct(toks, n, c) == n <= Len(toks) /\ toks[n] = Punct(c)

NoParse == [ok |-> FALSE, val |-> None, next |-> 0]

RECURSIVE ParseValue(_, _)
RECURSIVE ParseMembers(_, _, _)
RECURSIVE ParseElements(_, _, _)

\* AfterMember losing the member read last
AfterMember_DropsLast(toks, key, v, acc) ==
    IF ~v.ok THEN NoParse
    ELSE IF IsPunct(toks, v.next, ",")
         THEN ParseMembers(toks, v.next + 1, Put(acc, key, v.val))
    ELSE IF IsPunct(toks, v.next, "}")
         THEN [ok |-> TRUE, val |-> DictV(acc), next |-> v.next + 1]
    ELSE NoParse

\* after the member key : v of an object: a "," and more members, or "}"
\* (a repeated name keeps the last value)
AfterMember(toks, key, v, acc) ==
    IF ~v.ok THEN NoParse
    ELSE IF IsPunct(toks, v.next, ",")
         THEN ParseMembers(toks, v.next + 1, Put(acc, key, v.val))
    ELSE IF IsPunct(toks, v.next, "}")
         THEN [ok |-> TRUE, val |-> DictV(Put(acc, key, v.val)), next |-> v.next + 1]
    ELSE NoParse

\* members of an object from position n on, after "{" or ","; acc holds the
\* members read so far
ParseMembers(toks, n, acc) ==
    IF n + 1 <= Len(toks) /\ toks[n].t = "name" /\ IsPunct(toks, n + 1, ":")
    THEN AfterMember(toks, toks[n].n, ParseValue(toks, n + 2), acc)
    ELSE NoParse

\* after the element v of an array: a "," and more elements, or "]"
AfterElement(toks, v, acc) ==
    IF ~v.ok THEN NoParse
    ELSE IF IsPunct(toks, v.next, ",")
         THEN ParseElements(toks, v.next + 1, Append(acc, v.val))
    ELSE IF IsPunct(toks, v.next, "]")
         THEN [ok |-> TRUE, val |-> ListV(Append(acc, v.val)), next |-> v.next + 1]
    ELSE NoParse

ParseElements(toks, n, acc) == AfterElement(toks, ParseValue(toks, n), acc)

ParseValue(toks, n) ==
    IF n > Len(toks) THEN NoParse
    ELSE CASE toks[n].t \in {"int", "float", "str", "none"} ->
                 [ok |-> TRUE, val |-> toks[n], next |-> n + 1]
           [] IsPunct(toks, n, "{") ->
                 IF IsPunct(toks, n + 1, "}")
                 THEN [ok |-> TRUE, val |-> DictV(EmptyMap), next |-> n + 2]
                 ELSE ParseMembers(toks, n + 1, EmptyMap)
           [] IsPunct(toks, n, "[") ->
                 IF IsPunct(toks, n + 1, "]")
                 THEN [ok |-> TRUE, val |-> ListV(<<>>), next |-> n + 2]
                 ELSE ParseElements(toks, n + 1, <<>>)
           [] OTHER -> NoParse

\* the whole text must be one JSON value
WholeText(text, r) == IF r.ok /\ r.next = Len(text.toks) + 1 THEN r ELSE NoParse

ParseJson(text) == WholeText(text, ParseValue(text.toks, 1))

(* ------------------------------- inputs -------------------------------- *)

RECURSIVE SeqsUpTo(_, _)
\* the sequences over S of length at most n
SeqsUpTo(S, n) ==
    IF n = 0 THEN {<<>>}
    ELSE LET shorter == SeqsUpTo(S, n - 1)
         IN shorter \cup {Append(xs, x) : xs \in shorter, x \in S}

IntInputs == {IntV(1), StrV(s_123), StrV(s_bad), FloatV(300), FloatV(272)}

FloatInputs == {FloatV(272), StrV(s_2_72), StrV(s_not_a_float), IntV(20)}

StrInputs == {StrV(s_James), IntV(123), BytesV(s_binary_data)}

DatetimeInputs ==
    {None, StrV(s_2024_04_01T12_00), StrV(s_2024_04_01), StrV(s_bad),
     DatetimeV(2024, 4, 1, 12, 0)}

\* lists over the element inputs E, and one input that is not a list
ListInputs(E) == {ListV(xs) : xs \in SeqsUpTo(E, MaxListLen)} \cup {StrV(s_bad)}

\* the same, and tuples too
SequenceInputs(E) == ListInputs(E) \cup {TupleV(xs) : xs \in SeqsUpTo(E, MaxListLen)}

PetInputs ==
    {DictV([name |-> StrV(s_Bones), species |-> StrV(s_dog)]),
     ObjV("PetCls", [name |-> StrV(s_Bones), species |-> StrV(s_dog)]),
     DictV([name |-> StrV(s_Bones)])}

BarInputs == {DictV([apple |-> StrV(s_x1)]), DictV(EmptyMap), StrV(s_bad)}

FooInputs ==
    {DictV([count |-> IntV(4)]),
     DictV([count |-> StrV(s_123), size |-> StrV(s_2_72)]),
     DictV([size |-> None]),
     InstV("Foo", [count |-> IntV(4), size |-> None], EmptyMap)}

DataModelInputs ==
    {InstV("DataModel", [number |-> IntV(1)], EmptyMap),
     DictV([number |-> StrV(s_1)]),
     DictV([number |-> StrV(s_bad)])}

\* the values offered for key k of an input to model M
KeyInputs(M, k) ==
    CASE M = "User" /\ k = "id" -> IntInputs
      [] M = "User" /\ k = "name" -> StrInputs
      [] M = "ModelConv" /\ k = "a" -> IntInputs
      [] M = "ModelConv" /\ k = "b" -> FloatInputs
      [] M = "ModelConv" /\ k = "c" -> StrInputs
      [] M = "ModelItems" /\ k = "items" -> SequenceInputs({IntV(1), StrV(s_123), StrV(s_bad)})
      [] M \in {"ModelIgnore", "ModelAllow", "ModelForbid"} /\ k = "x" -> IntInputs
      [] M \in {"ModelIgnore", "ModelAllow", "ModelForbid"} /\ k = "y" -> {StrV(s_a)}
      [] M \in {"ModelIgnore", "ModelAllow", "ModelForbid"} /\ k = "z" -> {IntV(1)}
      [] M = "Foo" /\ k = "count" -> IntInputs
      [] M = "Foo" /\ k = "size" -> FloatInputs \cup {None}
      [] M = "Bar" /\ k \in {"apple", "banana"} -> StrInputs
      [] M = "Spam" /\ k = "foo" -> FooInputs
      [] M = "Spam" /\ k = "bars" -> ListInputs(BarInputs)
      [] M = "CompanyModel" /\ k = "id" -> {IntV(123), StrV(s_bad)}
      [] M = "CompanyModel" /\ k = "public_key" -> {StrV(s_foobar), IntV(123)}
      [] M = "CompanyModel" /\ k = "domains" -> ListInputs({StrV(s_example_com), IntV(1)})
      [] M = "Pet" /\ k \in {"name", "species"} -> StrInputs
      [] M = "Person" /\ k = "name" -> {StrV(s_Anna)}
      [] M = "Person" /\ k = "age" -> {IntV(20), StrV(s_not_a_float)}
      [] M = "Person" /\ k = "pets" -> ListInputs(PetInputs)
      [] M = "ModelErr" /\ k = "list_of_ints" -> ListInputs({StrV(s_1), IntV(2), StrV(s_bad)})
      [] M = "ModelErr" /\ k = "a_float" -> {FloatV(272), StrV(s_not_a_float)}
      [] M = "User2" /\ k = "id" -> IntInputs
      [] M = "User2" /\ k = "name" -> StrInputs
      [] M = "User2" /\ k = "signup_ts" -> DatetimeInputs
      [] M \in {"ModelNever", "ModelAlways"} /\ k = "a" -> IntInputs
      [] M = "DataModel" /\ k = "number" -> IntInputs
      [] M = "ResponseInt" /\ k = "data" -> IntInputs
      [] M = "ResponseStr" /\ k = "data" -> {StrV(s_value), IntV(123)}
      [] M = "ResponseDataModel" /\ k = "data" -> DataModelInputs

\* keys an input may carry: the declared fields, and undeclared keys for the
\* three models that differ only in their extra-data policy
InputKeys(M) ==
    SeqOfSet(FieldNames(M)) \o
      (IF M \in {"ModelIgnore", "ModelAllow", "ModelForbid"} THEN <<"y", "z">> ELSE <<>>)

RECURSIVE MapsOver(_, _)
\* every mapping that binds some of keys, each to one of its inputs
MapsOver(M, keys) ==
    IF keys = <<>> THEN {EmptyMap}
    ELSE LET rest == MapsOver(M, Tail(keys))
         IN rest \cup {Put(d, Head(keys), v) : d \in rest, v \in KeyInputs(M, Head(keys))}

Kwargs(M) == MapsOver(M, InputKeys(M))

\* inputs of model_validate that are neither a mapping nor an object to
\* read attributes from
NonMappings == {ListV(<<StrV(s_bad), StrV(s_a)>>), StrV(s_bad), None}

RECURSIVE JsonRepresentable(_)
JsonRepresentable(v) ==
    CASE v.t \in {"int", "float", "str", "none"} -> TRUE
      [] v.t = "list" -> \A n \in 1..Len(v.items) : JsonRepresentable(v.items[n])
      [] v.t = "dict" -> \A k \in DOMAIN v.d : JsonRepresentable(v.d[k])
      [] OTHER -> FALSE

RECURSIVE JsonText(_)
RECURSIVE JsonMembers(_, _)
RECURSIVE JsonElements(_)

JsonMembers(d, keys) ==
    IF keys = <<>> THEN <<>>
    ELSE <<Name(Head(keys)), Punct(":")>> \o JsonText(d[Head(keys)])
           \o (IF Tail(keys) = <<>> THEN <<>> ELSE <<Punct(",")>>)
           \o JsonMembers(d, Tail(keys))

JsonElements(xs) ==
    IF xs = <<>> THEN <<>>
    ELSE JsonText(Head(xs)) \o (IF Tail(xs) = <<>> THEN <<>> ELSE <<Punct(",")>>)
           \o JsonElements(Tail(xs))

\* the text that states the value v in JSON
JsonText(v) ==
    CASE v.t = "dict" ->
            <<Punct("{")>> \o JsonMembers(v.d, SeqOfSet(DOMAIN v.d)) \o <<Punct("}")>>
      [] v.t = "list" -> <<Punct("[")>> \o JsonElements(v.items) \o <<Punct("]")>>
      [] OTHER -> <<v>>

\* texts that are not JSON, and a JSON text that is not an object
BadTexts ==
    {TextV(<<Word("invalid"), Word("JSON")>>),
     TextV(<<>>),
     TextV(<<Punct("{"), Name("id"), Punct(":")>>),
     TextV(<<Punct("{"), Name("id"), Punct(":"), IntV(1), Punct(",")>> \o <<Punct("}")>>),
     TextV(<<Punct("["), IntV(1), Punct("]")>>)}

\* inputs of model_validate_strings: mappings whose values are all strings
StringKwargs(M) == {d \in Kwargs(M) : \A k \in DOMAIN d : d[k].t = "str"}

\* the models that are given objects to read attributes from: those set up
\* with from_attributes, and one that is not
AttributeModels == {M \in ModelNames : ModelConfig(M).from_attributes} \cup {"ModelConv"}

\* the object that carries the mapping d as attributes
AttrObject(M, d) == ObjV(M, d)

AssignInputs == {IntV(321), StrV(s_not_an_int)}

(* ------------------------------- actions ------------------------------- *)

Init ==
    /\ cls = "none"
    /\ m = None
    /\ pristine = FALSE
    /\ op = "init"
    /\ arg = None
    /\ data = None
    /\ ret = None
    /\ err = <<>>

\* the outcome r of a call: the value it returns, and the error it raises
Returns(r) == ret' = r.val /\ err' = r.errs

\* a call on model M that takes data in and binds m to the instance returned;
\* a call that raises binds nothing.  Each run is one example of the file:
\* one such call, then the operations made on the instance.
Bind(M, r, shown, d, name) ==
    /\ op = "init"
    /\ cls' = M
    /\ op' = name
    /\ arg' = shown
    /\ data' = d
    /\ Returns(r)
    /\ m' = IF r.errs = <<>> THEN r.val ELSE m
    /\ pristine' = IF r.errs = <<>> THEN TRUE ELSE pristine

Call(M, input, d, name) == Bind(M, ValidateModel(M, input, <<>>), input, d, name)

\* m = M(**kw)
Construct(M, kw) == Call(M, DictV(kw), DictV(kw), "construct")

\* m = M.model_validate(obj), obj a mapping
ModelValidate(M, d) == Call(M, DictV(d), DictV(d), "model_validate")

\* m = M.model_validate(obj), obj an object carrying d as attributes
ModelValidateAttributes(M, d) ==
    Call(M, AttrObject(M, d), DictV(d), "model_validate_attributes")

\* M.model_validate(obj), obj neither a mapping nor an attribute object
ModelValidateOther(M, v) == Call(M, v, None, "model_validate_other")

\* the parsed text validated in turn, or an error for text that is not JSON
JsonResult(M, text, p) ==
    IF p.ok THEN ValidateModel(M, p.val, <<>>)
    ELSE Fail(Error(<<>>, "json_invalid", text))

\* m = M.model_validate_json(text)
ModelValidateJson(M, text, d) ==
    Bind(M, JsonResult(M, text, ParseJson(text)), text, d, "model_validate_json")

\* m = M.model_validate_strings(d)
ModelValidateStrings(M, d) == Call(M, DictV(d), None, "model_validate_strings")

\* m2 = M.model_validate(m), m an instance of M
ModelValidateInstance ==
    /\ m # None
    /\ cls' = m.model
    /\ op' = "model_validate_instance"
    /\ arg' = m
    /\ Returns(ValidateModel(m.model, m, <<>>))
    /\ UNCHANGED <<m, pristine, data>>

\* the outcome r of validating an assigned value, stored when it is valid
AssignChecked(f, r) ==
    /\ m' = IF r.errs = <<>> THEN [m EXCEPT !.fields[f] = r.val] ELSE m
    /\ err' = r.errs

\* SetAttr validating the assigned value, as validate_assignment=True does
SetAttr_Validated(f, v) ==
    /\ m # None
    /\ f \in FieldNames(m.model)
    /\ AssignChecked(f, Validate(FieldOf(m.model, f).type, v, <<Fld(f)>>))
    /\ pristine' = FALSE
    /\ cls' = m.model
    /\ op' = "setattr"
    /\ arg' = [t |-> "attr", name |-> f, value |-> v]
    /\ data' = None
    /\ ret' = None

\* m.f = v
SetAttr(f, v) ==
    /\ m # None
    /\ f \in FieldNames(m.model)
    /\ m' = [m EXCEPT !.fields[f] = v]
    /\ pristine' = FALSE
    /\ cls' = m.model
    /\ op' = "setattr"
    /\ arg' = [t |-> "attr", name |-> f, value |-> v]
    /\ data' = None
    /\ ret' = None
    /\ err' = <<>>

\* m.model_dump()
ModelDump ==
    /\ m # None
    /\ cls' = m.model
    /\ op' = "model_dump"
    /\ arg' = None
    /\ ret' = Dump(m)
    /\ err' = <<>>
    /\ UNCHANGED <<m, pristine, data>>

\* M.model_validate(m.model_dump()), right after the dump
ValidateDump ==
    /\ op = "model_dump"
    /\ cls' = m.model
    /\ op' = "validate_dump"
    /\ arg' = ret
    /\ Returns(ValidateModel(m.model, ret, <<>>))
    /\ UNCHANGED <<m, pristine, data>>

Next ==
    \/ op = "init" /\ \E M \in ModelNames : \E d \in Kwargs(M) : Construct(M, d)
    \/ op = "init" /\ \E M \in ModelNames : \E d \in Kwargs(M) : ModelValidate(M, d)
    \/ op = "init" /\ \E M \in AttributeModels : \E d \in Kwargs(M) : ModelValidateAttributes(M, d)
    \/ op = "init" /\ \E M \in ModelNames : \E v \in NonMappings : ModelValidateOther(M, v)
    \/ op = "init" /\ \E M \in ModelNames : \E d \in {x \in Kwargs(M) : JsonRepresentable(DictV(x))} :
          ModelValidateJson(M, TextV(JsonText(DictV(d))), DictV(d))
    \/ op = "init" /\ \E M \in ModelNames : \E text \in BadTexts : ModelValidateJson(M, text, None)
    \/ op = "init" /\ \E M \in ModelNames : \E d \in StringKwargs(M) : ModelValidateStrings(M, d)
    \/ ModelValidateInstance
    \/ m # None /\ \E f \in FieldNames(m.model) : \E v \in AssignInputs : SetAttr(f, v)
    \/ ModelDump
    \/ ValidateDump

Spec == Init /\ [][Next]_vars

(* ------------------------------ properties ----------------------------- *)

RECURSIVE Conforms(_, _)
\* the value v is of the declared type T (no coercion)
Conforms(T, v) ==
    CASE T.k = "int" -> v.t = "int"
      [] T.k = "float" -> v.t = "float"
      [] T.k = "str" -> v.t = "str" /\ (T.bounded => Len(v.s) <= T.max)
      [] T.k = "datetime" -> v.t = "datetime"
      [] T.k = "optional" -> v.t = "none" \/ Conforms(T.of, v)
      [] T.k = "list" ->
            v.t = "list" /\ \A n \in 1..Len(v.items) : Conforms(T.elem, v.items[n])
      [] T.k = "model" ->
            /\ v.t = "inst"
            /\ v.model = T.name
            /\ DOMAIN v.fields = FieldNames(T.name)
            /\ \A f \in FieldNames(T.name) : Conforms(FieldOf(T.name, f).type, v.fields[f])

\* calls that take untrusted data in and return an instance
DataCalls ==
    {"construct", "model_validate", "model_validate_attributes", "model_validate_other",
     "model_validate_json", "model_validate_strings"}

RECURSIVE ValueAt(_, _)
\* the part of the input v that the location loc points at
ValueAt(v, loc) ==
    IF loc = <<>> THEN v
    ELSE LET at == Head(loc)
         IN CASE "f" \in DOMAIN at /\ v.t = "dict" -> ValueAt(v.d[at.f], Tail(loc))
              [] "f" \in DOMAIN at /\ v.t = "obj" -> ValueAt(v.attrs[at.f], Tail(loc))
              [] "f" \in DOMAIN at /\ v.t = "inst" -> ValueAt(v.fields[at.f], Tail(loc))
              [] "ix" \in DOMAIN at /\ v.t = "list" -> ValueAt(v.items[at.ix + 1], Tail(loc))
              [] "ix" \in DOMAIN at /\ v.t = "tuple" -> ValueAt(v.elts[at.ix + 1], Tail(loc))

IsPrefix(p, loc) == Len(p) <= Len(loc) /\ SubSeq(loc, 1, Len(p)) = p

Reported(loc) == \E n \in 1..Len(err) : IsPrefix(loc, err[n].loc)

\* C1: in every instance returned by a successful validation, every field's
\* stored value satisfies the type declared for the field, defaults included.
C1_FieldsSatisfyDeclaredTypes ==
    (op \in DataCalls /\ err = <<>>) => Conforms(TModel(cls), ret)

\* the elements of a sequence input (list or tuple)
Elements(v) == IF v.t = "list" THEN v.items ELSE v.elts

\* C2: a mapping with values that cannot be coerced raises an error and
\* yields no instance; the error has an entry for every offending field and
\* for every offending list element and for no valid one, and each entry
\* carries its location, an error kind and the bad input value found there.
C2_ErrorEnumeratesOffenders ==
    op \in {"construct", "model_validate"} =>
        LET given == FieldNames(cls) \cap DOMAIN arg.d
            Bad(f) == Validate(FieldOf(cls, f).type, arg.d[f], <<Fld(f)>>).errs # <<>>
            IsSeq(f) == FieldOf(cls, f).type.k = "list" /\ arg.d[f].t \in {"list", "tuple"}
        IN /\ (\E f \in given : Bad(f)) => (err # <<>> /\ ret = None)
           /\ \A f \in given : Bad(f) <=> Reported(<<Fld(f)>>)
           /\ \A f \in {g \in given : IsSeq(g)} :
                 \A n \in 1..Len(Elements(arg.d[f])) :
                    (Validate(FieldOf(cls, f).type.elem, Elements(arg.d[f])[n],
                              <<Fld(f), Idx(n - 1)>>).errs # <<>>)
                      <=> Reported(<<Fld(f), Idx(n - 1)>>)
           /\ \A n \in 1..Len(err) :
                 /\ err[n].type # ""
                 /\ err[n].type # "missing" => err[n].input = ValueAt(arg, err[n].loc)
                 /\ err[n].type = "missing" =>
                       err[n].input = ValueAt(arg, SubSeq(err[n].loc, 1, Len(err[n].loc) - 1))

C2_Witness ==
    /\ op = "construct"
    /\ cls = "ModelErr"
    /\ ret = None
    /\ Len(err) = 2
    /\ err[1].loc = <<Fld("list_of_ints"), Idx(2)>>
    /\ err[1].input = StrV(s_bad)
    /\ err[2].loc = <<Fld("a_float")>>
    /\ err[2].input = StrV(s_not_a_float)
    /\ arg.d["list_of_ints"] = ListV(<<StrV(s_1), IntV(2), StrV(s_bad)>>)

Restrict(d, keys) == [k \in DOMAIN d \cap keys |-> d[k]]

ExtraModels == {"ModelIgnore", "ModelAllow", "ModelForbid"}

\* C3: the extra-data policy decides the fate of undeclared keys: 'ignore'
\* drops them, 'allow' stores them in the extra dictionary and dumps them,
\* 'forbid' fails; the declared fields are validated alike under all three.
C3_ExtraPolicy ==
    (op \in {"construct", "model_validate"} /\ cls \in ExtraModels) =>
        LET xkeys == DOMAIN arg.d \ FieldNames(cls)
            policy == ModelConfig(cls).extra
            base == ValidateModel("ModelIgnore", DictV(Restrict(arg.d, FieldNames(cls))), <<>>)
            kept == IF policy = "allow" THEN xkeys ELSE {}
        IN /\ policy \in {"ignore", "allow"} => ((err = <<>>) <=> (base.errs = <<>>))
           /\ policy = "forbid" => ((err = <<>>) <=> (base.errs = <<>> /\ xkeys = {}))
           /\ err # <<>> => ret = None
           /\ err = <<>> =>
                 /\ ret.fields = base.val.fields
                 /\ ret.extra = Restrict(arg.d, kept)
                 /\ DOMAIN Dump(ret).d = FieldNames(cls) \cup kept
                 /\ \A k \in kept : Dump(ret).d[k] = arg.d[k]

C3_Witness ==
    /\ op = "construct"
    /\ cls = "ModelAllow"
    /\ err = <<>>
    /\ arg.d = [x |-> IntV(1), y |-> StrV(s_a)]
    /\ ret.extra = [y |-> StrV(s_a)]

RECURSIVE HasModel(_)
\* the type T has a model somewhere inside
HasModel(T) ==
    CASE T.k = "model" -> TRUE
      [] T.k = "list" -> HasModel(T.elem)
      [] T.k = "optional" -> HasModel(T.of)
      [] OTHER -> FALSE

\* what the dump holds for field f of the unmodified instance m, validated
\* from the mapping data: the default when f was omitted, else the supplied
\* value coerced to the declared type
DumpsStoredValue(f) ==
    LET fd == FieldOf(cls, f)
    IN /\ ~HasModel(fd.type) => ret.d[f] = m.fields[f]
       /\ f \notin DOMAIN data.d => m.fields[f] = fd.default
       /\ f \in DOMAIN data.d =>
             /\ Conforms(fd.type, m.fields[f])
             /\ Conforms(fd.type, data.d[f]) => m.fields[f] = data.d[f]
             /\ (fd.type.k = "int" /\ data.d[f] = StrV(s_123)) => ret.d[f] = IntV(123)
             /\ (fd.type.k = "int" /\ data.d[f] = FloatV(300)) => ret.d[f] = IntV(3)
             /\ (fd.type.k = "list" /\ data.d[f].t = "tuple") =>
                   (ret.d[f].t = "list" /\ Len(ret.d[f].items) = Len(data.d[f].elts))

\* C4 as stated: the keys of model_dump() are exactly the declared field
\* names, and the values are the coerced values stored in the instance.
C4_DumpKeysAreDeclaredFields ==
    (op = "model_dump" /\ pristine /\ data # None) =>
        /\ DOMAIN ret.d = FieldNames(cls)
        /\ \A f \in FieldNames(cls) : DumpsStoredValue(f)

\* C4 (amended): the keys of model_dump() are exactly the declared field
\* names together with the keys of the instance's extra dictionary, and the
\* values are the coerced values stored in the instance.
C4_DumpKeysAreFieldsAndExtra ==
    (op = "model_dump" /\ pristine /\ data # None) =>
        /\ DOMAIN ret.d = FieldNames(cls) \cup DOMAIN m.extra
        /\ \A f \in FieldNames(cls) : DumpsStoredValue(f)
        /\ \A k \in DOMAIN m.extra : ret.d[k] = m.extra[k]

C4_Witness ==
    /\ op = "model_dump"
    /\ pristine
    /\ cls = "ModelConv"
    /\ data.d = [a |-> FloatV(300), b |-> StrV(s_2_72), c |-> BytesV(s_binary_data)]
    /\ ret.d = [a |-> IntV(3), b |-> FloatV(272), c |-> StrV(s_binary_data)]

\* C5: the same data given as a mapping, as JSON text or (to a model with
\* from_attributes) as an object's attributes validates to equal instances,
\* or fails in all forms; an input that is none of these raises an error
\* with a single entry located at the model root, and yields no instance.
C5_InputFormsAgree ==
    /\ (/\ op \in {"model_validate", "model_validate_json", "model_validate_attributes"}
        /\ data # None
        /\ op = "model_validate_attributes" => ModelConfig(cls).from_attributes) =>
           LET viaMapping == ValidateModel(cls, data, <<>>)
           IN /\ (err = <<>>) <=> (viaMapping.errs = <<>>)
              /\ ret = viaMapping.val
    /\ (\/ op = "model_validate_other"
        \/ op = "model_validate_json" /\ data = None) =>
           /\ Len(err) = 1
           /\ err[1].loc = <<>>
           /\ ret = None

C5_Witness ==
    /\ op = "model_validate_json"
    /\ cls = "User2"
    /\ err = <<>>
    /\ Len(arg.toks) = 9
    /\ ParseJson(arg).val = DictV([id |-> StrV(s_123), name |-> StrV(s_James)])
    /\ ret.fields = [id |-> IntV(123), name |-> StrV(s_James), signup_ts |-> None]

\* C6: attribute assignment to a field of an instance always succeeds, is
\* not validated, stores the assigned value and leaves the other fields alone.
C6_AssignmentUnvalidated ==
    [][/\ m # None =>
             \A f \in FieldNames(m.model) : \A v \in AssignInputs : ENABLED SetAttr(f, v)
       /\ op' = "setattr" =>
             /\ err' = <<>>
             /\ m'.model = m.model
             /\ m'.extra = m.extra
             /\ m'.fields[arg'.name] = arg'.value
             /\ \A g \in FieldNames(m.model) \ {arg'.name} : m'.fields[g] = m.fields[g]]_vars

C6_Witness ==
    /\ op = "setattr"
    /\ cls = "ModelNever"
    /\ arg.name = "a"
    /\ arg.value = StrV(s_not_an_int)
    /\ m.fields["a"] = StrV(s_not_an_int)
    /\ err = <<>>

\* C7: model_validate of an existing instance never raises under
\* revalidate_instances='never' and returns the instance as it is; under
\* 'always' the current field values are validated again, and an invalid one
\* raises an error that names its field.
C7_RevalidateInstances ==
    op = "model_validate_instance" =>
        LET Invalid(f) ==
                Validate(FieldOf(cls, f).type, arg.fields[f], <<Fld(f)>>).errs # <<>>
        IN /\ ModelConfig(cls).revalidate_instances = "never" => (err = <<>> /\ ret = arg)
           /\ ModelConfig(cls).revalidate_instances = "always" =>
                 /\ \A f \in FieldNames(cls) : Invalid(f) <=> Reported(<<Fld(f)>>)
                 /\ (\E f \in FieldNames(cls) : Invalid(f)) => (err # <<>> /\ ret = None)
                 /\ (\A f \in FieldNames(cls) : ~Invalid(f)) =>
                       (err = <<>> /\ Conforms(TModel(cls), ret))

C7_Witness ==
    /\ op = "model_validate_instance"
    /\ cls = "ModelAlways"
    /\ arg.fields["a"] = StrV(s_not_an_int)
    /\ Len(err) = 1
    /\ err[1].loc = <<Fld("a")>>
    /\ err[1].type = "int_parsing"

RECURSIVE Plain(_)
\* no model instance anywhere inside v
Plain(v) ==
    CASE v.t = "inst" -> FALSE
      [] v.t = "list" -> \A n \in 1..Len(v.items) : Plain(v.items[n])
      [] v.t = "tuple" -> \A n \in 1..Len(v.elts) : Plain(v.elts[n])
      [] v.t = "dict" -> \A k \in DOMAIN v.d : Plain(v.d[k])
      [] OTHER -> TRUE

\* the instance v of model M was built from the mapping or object src with
\* M's defaults filled in for the fields src does not carry
DefaultsFilled(M, v, src) ==
    LET given == IF src.t = "dict" THEN DOMAIN src.d
                 ELSE IF src.t = "obj" THEN DOMAIN src.attrs ELSE FieldNames(M)
    IN /\ v.t = "inst"
       /\ v.model = M
       /\ DOMAIN v.fields = FieldNames(M)
       /\ \A g \in FieldNames(M) \ given : v.fields[g] = FieldOf(M, g).default

\* C8: a mapping or attribute object supplied for a model-typed field, or
\* each element supplied for a list-of-model field, is validated into an
\* instance of the nested model with that model's defaults filled in, and
\* model_dump() turns every nested instance back into a plain mapping.
C8_NestedModels ==
    /\ (op \in DataCalls /\ err = <<>> /\ data # None) =>
          \A f \in FieldNames(cls) \cap DOMAIN data.d :
             LET T == FieldOf(cls, f).type
             IN /\ T.k = "model" => DefaultsFilled(T.name, ret.fields[f], data.d[f])
                /\ (T.k = "list" /\ T.elem.k = "model") =>
                      /\ ret.fields[f].t = "list"
                      /\ Len(ret.fields[f].items) = Len(Elements(data.d[f]))
                      /\ \A n \in 1..Len(ret.fields[f].items) :
                            DefaultsFilled(T.elem.name, ret.fields[f].items[n],
                                           Elements(data.d[f])[n])
    /\ op = "model_dump" =>
          /\ Plain(ret)
          /\ \A f \in FieldNames(cls) :
                m.fields[f].t = "inst" =>
                   (ret.d[f].t = "dict" /\ DOMAIN ret.d[f].d = DOMAIN m.fields[f].fields)

C8_Witness ==
    /\ op = "model_dump"
    /\ cls = "Spam"
    /\ m.fields["bars"].t = "list"
    /\ Len(m.fields["bars"].items) = 2
    /\ m.fields["bars"].items[1] = InstV("Bar", [apple |-> StrV(s_x1), banana |-> StrV(s_y)], EmptyMap)
    /\ ret.d["foo"] = DictV([count |-> IntV(4), size |-> None])
    /\ ret.d["bars"].items[1] = DictV([apple |-> StrV(s_x1), banana |-> StrV(s_y)])

\* C9: validating the dump of an unmodified validated instance succeeds and
\* yields an instance equal to it, whose dump is the same mapping.
C9_DumpValidatesBackToInstance ==
    (op = "validate_dump" /\ pristine) => (err = <<>> /\ ret = m /\ Dump(ret) = arg)

====
